---- MODULE Spec2Model ----
(***************************************************************************)
(* Pico-Nunchuk (code.py): Wii Nunchuk to USB HID bridge.                  *)
(*                                                                         *)
(* The model follows main(): init_i2c (hardware I2C, bus recovery, retry,  *)
(* bit-banged I2C at three frequencies, halt), the bus scan and driver     *)
(* construction, and then the control loop, one Tick per loop iteration.   *)
(*                                                                         *)
(* Time is counted in milliseconds: the tap threshold of 0.3 s is 300 and   *)
(* the loop delay of 0.01 s is 10.  time.monotonic() is read once per      *)
(* iteration; the model's "now" is that reading.  The readings the model   *)
(* feeds are multiples of 125 ms (1/8 s), which are exact as binary        *)
(* floating-point seconds, so the float subtraction now - press_time and   *)
(* its comparison with 0.3 are exact on them.                              *)
(*                                                                         *)
(* scale_axis is also run on its own (SpecScale), one call per behaviour   *)
(* with arguments beyond those the loop passes; its float arithmetic is    *)
(* modelled with the rounding of IEEE doubles.                             *)
(***************************************************************************)
EXTENDS Integers, Sequences, FiniteSets, TLC

VARIABLES
    pc,                 \* where main() is: start-up phase, "halt" or "run"
    i2c,                \* the bus handle init_i2c returned ("none" before)
    bb_idx,             \* index into BitbangFreqs of the next software attempt
    attempts,           \* history: the strategies tried, in order, with results
    recovery,           \* history: what release_i2c_bus saw and did
    idle,               \* history: sleeps done in the halt loop (capped)
    nunchuk,            \* "none" until adafruit_nunchuk.Nunchuk(i2c) is built
    now,                \* main(): now = time.monotonic(), in ms
    btn_c, btn_z,       \* the two ButtonState objects
    left_click_held,    \* main(): left_click_held
    right_click_held,   \* main(): right_click_held
    joy,                \* last sample: <<jx, jy>>
    buttons,            \* last sample: [C |-> bool, Z |-> bool]
    c_event, z_event,   \* results of the two update() calls of this tick
    mode,               \* branch of the modifier if/elif/else taken this tick
    out,                \* HID commands emitted by this tick, in order
    held_before,        \* history: the latches as they were when the tick began
    ep_c, ep_z,         \* history: the current/most recent press episode
    device,             \* history: which buttons and keys the host sees down
    sc                  \* one call of scale_axis: its arguments and its result

vars == << pc, i2c, bb_idx, attempts, recovery, idle, nunchuk, now, btn_c, btn_z,
           left_click_held, right_click_held, joy, buttons, c_event, z_event,
           mode, out, held_before, ep_c, ep_z, device, sc >>

boot_vars == << i2c, bb_idx, attempts, recovery, idle, nunchuk >>
loop_vars == << now, btn_c, btn_z, left_click_held, right_click_held, joy,
                buttons, c_event, z_event, mode, out, held_before, ep_c, ep_z,
                device >>

(***************************************************************************)
(* Configuration (code.py lines 16-39)                                     *)
(***************************************************************************)
JOY_CENTER == 128
JOY_DEADZONE == 25
MOUSE_SENSITIVITY == 15
SCROLL_DIVIDER == 40
ORBIT_SENSITIVITY == 12
\* 0.3 s, in ms
TAP_MAX_DURATION == 300
\* 0.01 s, in ms
LOOP_DELAY == 10
\* range(9) in release_i2c_bus
RECOVERY_PULSES == 9
\* the clamp of scale_axis
HID_MAX == 127
BitbangFreqs == << 100000, 50000, 10000 >>

(***************************************************************************)
(* Bounds of the model                                                     *)
(***************************************************************************)
\* the clock readings of the loop are multiples of ClockStep ms
ClockStep == 125
\* the loop is followed for MaxTicks clock steps
MaxTicks == 6
\* after a start-up with bus faults the loop is followed for BootTicks steps
BootTicks == 1
\* sleeps counted in the halt loop
MaxIdle == 2
\* stick readings fed to the loop: centred, full right, full left and down,
\* and just outside the dead zone (moved, but too little for any output)
JoySamples ==
    { << JOY_CENTER, JOY_CENTER >>, << 255, JOY_CENTER >>, << 0, 255 >>,
      << JOY_CENTER + JOY_DEADZONE + 1, JOY_CENTER - JOY_DEADZONE - 1 >> }
\* time between two clock readings of the loop: an iteration lasts at least
\* LOOP_DELAY and as long as its blocking I2C reads and HID reports take
TickDurations == { ClockStep, 2 * ClockStep }

\* arguments of the calls of scale_axis made on its own: raw values from
\* -BelowZero to MaxRaw (the Nunchuk gives 0..255) and the two far values
\* -FarValue and FarValue; the program's centre, a small one and a far one;
\* no dead zone and the program's; seven sensitivities, one of them negative.
\* Python integers have no width and a float ends near 1.8 * 10^308: the
\* argument that ScaleOversize names is the integer 10^400, whatever number
\* the call record holds for it.
BelowZero == 45
MaxRaw == 300
FarValue == 30000
ScaleValues == ((-BelowZero)..MaxRaw) \cup { -FarValue, FarValue }
ScaleCenters == { JOY_CENTER, 10, FarValue }
ScaleDeadzones == { 0, JOY_DEADZONE }
ScaleSensitivities ==
    { -MOUSE_SENSITIVITY, 0, 1, ORBIT_SENSITIVITY, MOUSE_SENSITIVITY,
      JOY_CENTER - JOY_DEADZONE, 200 }
ScaleOversize == { "none", "value", "sensitivity" }
MaxTime == MaxTicks * ClockStep
BootMaxTime == BootTicks * ClockStep

(***************************************************************************)
(* Helpers                                                                 *)
(***************************************************************************)
Abs(x) == IF x < 0 THEN -x ELSE x
Min2(a, b) == IF a < b THEN a ELSE b
Max2(a, b) == IF a > b THEN a ELSE b
\* Python's int() of a quotient: truncation toward zero (b > 0)
TruncDiv(a, b) == IF a >= 0 THEN a \div b ELSE -((-a) \div b)

(***************************************************************************)
(* ButtonState (code.py lines 43-81)                                       *)
(***************************************************************************)
\* ButtonState.__init__
ButtonState ==
    [ is_pressed |-> FALSE, press_time |-> 0,
      moved_during_press |-> FALSE, was_held |-> FALSE ]

\* Variants of update() with one slip each; used to show that the properties
\* below depend on the code of update().  v is the slip:
\*   "no_reset"   the press transition leaves was_held/moved_during_press
\*   "tap_moved"  the "not" of the tap test is missing
\*   "hold_again" hold_start is not limited to once per press
\*   "no_moved"   stick movement is not recorded while held
update_variant(self, pressed, t, moved, v) ==
    IF pressed /\ ~self.is_pressed THEN
        [ st |-> [ is_pressed |-> TRUE, press_time |-> t,
                   moved_during_press |->
                       IF v = "no_reset" THEN self.moved_during_press ELSE FALSE,
                   was_held |->
                       IF v = "no_reset" THEN self.was_held ELSE FALSE ],
          event |-> "none" ]
    ELSE IF pressed /\ self.is_pressed THEN
        LET duration == t - self.press_time
            start == (v = "hold_any" \/ duration > TAP_MAX_DURATION)
                     /\ (v = "hold_again" \/ ~self.was_held)
        IN  [ st |-> [ self EXCEPT
                         !.moved_during_press =
                             IF moved /\ v # "no_moved" THEN TRUE ELSE @,
                         !.was_held = IF start THEN TRUE ELSE @ ],
              event |-> IF start THEN "hold_start" ELSE "none" ]
    ELSE IF ~pressed /\ self.is_pressed THEN
        LET duration == t - self.press_time
            still == IF v = "tap_moved" THEN self.moved_during_press
                                        ELSE ~self.moved_during_press
        IN  [ st |-> [ self EXCEPT !.is_pressed = FALSE ],
              event |-> IF self.was_held THEN "hold_end"
                        ELSE IF duration <= TAP_MAX_DURATION /\ still THEN "tap"
                        ELSE "none" ]
    ELSE [ st |-> self, event |-> "none" ]

\* update() starting the hold on any sample after the press
update_HoldAny(self, pressed, t, moved) ==
    update_variant(self, pressed, t, moved, "hold_any")
update_NoReset(self, pressed, t, moved) ==
    update_variant(self, pressed, t, moved, "no_reset")
update_TapMoved(self, pressed, t, moved) ==
    update_variant(self, pressed, t, moved, "tap_moved")
update_HoldAgain(self, pressed, t, moved) ==
    update_variant(self, pressed, t, moved, "hold_again")
update_NoMoved(self, pressed, t, moved) ==
    update_variant(self, pressed, t, moved, "no_moved")

\* ButtonState.update(pressed, now, moved): the new object state and the
\* returned event ("none" for None)
update(self, pressed, t, moved) ==
    IF pressed /\ ~self.is_pressed THEN
        \* Button just pressed
        [ st |-> [ is_pressed |-> TRUE, press_time |-> t,
                   moved_during_press |-> FALSE, was_held |-> FALSE ],
          event |-> "none" ]
    ELSE IF pressed /\ self.is_pressed THEN
        \* Button still held
        LET duration == t - self.press_time
            start == duration > TAP_MAX_DURATION /\ ~self.was_held
        IN  [ st |-> [ self EXCEPT
                         !.moved_during_press = IF moved THEN TRUE ELSE @,
                         !.was_held = IF start THEN TRUE ELSE @ ],
              event |-> IF start THEN "hold_start" ELSE "none" ]
    ELSE IF ~pressed /\ self.is_pressed THEN
        \* Button just released
        LET duration == t - self.press_time
        IN  [ st |-> [ self EXCEPT !.is_pressed = FALSE ],
              event |-> IF self.was_held THEN "hold_end"
                        ELSE IF duration <= TAP_MAX_DURATION
                                /\ ~self.moved_during_press THEN "tap"
                        ELSE "none" ]
    ELSE [ st |-> self, event |-> "none" ]

(***************************************************************************)
(* scale_axis and joy_active (code.py lines 84-104)                        *)
(***************************************************************************)
\* The arithmetic of line 98, scaled = (offset / max_range) * sensitivity, is
\* done in binary floating point (DOUBLE_MANTISSA significant bits) and line
\* 99 truncates it.  The quotient is rounded, the product is rounded again,
\* and where sensitivity * offset is an exact multiple of max_range the
\* result can land just below that integer, which int() then takes down by
\* one.  The operators below decide that case with integers only, for
\* a = |offset| > 0, m = max_range > 0, s = |sensitivity| > 0.  Where the
\* product is no multiple of max_range it lies at least 1 / max_range away
\* from every integer, which the two roundings (2^-52 of the value each)
\* cannot bridge while |offset * sensitivity| < 2^50.  The arguments of this
\* model have magnitudes up to FarValue, so |offset * sensitivity| stays
\* below 2^31 and truncating the exact quotient gives int(scaled).
DOUBLE_MANTISSA == 53

\* the binary exponent of a / m: the e with 2^e <= a / m < 2^(e + 1)
RECURSIVE FloorLog2(_, _)
FloorLog2(a, m) ==
    IF a >= 2 * m THEN FloorLog2(a, 2 * m) + 1
    ELSE IF a < m THEN FloorLog2(2 * a, m) - 1
    ELSE 0

\* 2^k mod m, by repeated squaring
RECURSIVE Pow2Mod(_, _)
Pow2Mod(k, m) ==
    IF k = 0 THEN 1 % m
    ELSE LET h == Pow2Mod(k \div 2, m)
         IN  IF k % 2 = 0 THEN (h * h) % m ELSE (2 * h * h) % m

\* (a * 2^k) mod m
ShiftMod(a, k, m) == ((a % m) * Pow2Mod(k, m)) % m

RECURSIVE Pow2(_)
Pow2(n) == IF n = 0 THEN 1 ELSE 2 * Pow2(n - 1)

RECURSIVE IsPow2(_)
IsPow2(r) == r = 1 \/ (r > 1 /\ r % 2 = 0 /\ IsPow2(r \div 2))

\* the float product (a / m) * s is below the integer a * s / m:
\* the quotient was rounded down, by t / (m * 2^k), and s times that is more
\* than half the gap between a * s / m and the float below it
FloatBelow(a, m, s) ==
    /\ (a * s) % m = 0
    /\ LET r == (a * s) \div m
           ex == FloorLog2(a, m)
           er == FloorLog2(r, 1)
           t == ShiftMod(a, DOUBLE_MANTISSA - 1 - ex, m)
           p == IF IsPow2(r) THEN 2 ELSE 1
       IN  /\ 0 < 2 * t
           /\ 2 * t < m
           /\ t * s * Pow2(p) > m * Pow2(er - ex)

\* int((offset / max_range) * sensitivity) for max_range > 0: truncation toward
\* zero of the float product
IntScaled(offset, max_range, sensitivity) ==
    LET a == Abs(offset)
        s == Abs(sensitivity)
        q == (a * s) \div max_range
        n == IF a > 0 /\ s > 0 /\ FloatBelow(a, max_range, s) THEN q - 1 ELSE q
    IN  IF (offset >= 0) = (sensitivity >= 0) THEN n ELSE -n

\* variants of scale_axis: "code" is the function of lines 84-99, the others
\* each change one step of it
scale_axis_variant(value, center, deadzone, sensitivity, v) ==
    LET offset == value - center
        shrunk == IF v = "no_shrink" THEN offset
                  ELSE IF offset > 0 THEN offset - deadzone
                  ELSE offset + deadzone
        max_range == center - deadzone
        scaled == IF v = "floor"
                  THEN (shrunk * sensitivity) \div max_range
                  ELSE IntScaled(shrunk, max_range, sensitivity)
    IN  IF Abs(offset) <= deadzone THEN 0
        ELSE IF max_range <= 0 THEN 0
        ELSE Max2(Min2(scaled, HID_MAX), -HID_MAX)

\* scale_axis without the removal of the dead zone from the offset
scale_axis_NoShrink(value, center, deadzone, sensitivity) ==
    scale_axis_variant(value, center, deadzone, sensitivity, "no_shrink")
\* scale_axis rounding down instead of toward zero
scale_axis_Floor(value, center, deadzone, sensitivity) ==
    scale_axis_variant(value, center, deadzone, sensitivity, "floor")

\* scale_axis (lines 84-99) for integer arguments with
\* |offset * sensitivity| < 2^50, where line 98 cannot raise and the float
\* arithmetic is decided by IntScaled; scale_axis_call has the arguments
\* beyond the float range.
scale_axis(value, center, deadzone, sensitivity) ==
    scale_axis_variant(value, center, deadzone, sensitivity, "code")

\* One call of scale_axis, oversize naming the argument that is 10^400.
\* Line 87 returns 0 inside the dead zone (an oversize value is outside it)
\* and line 96 returns 0 for max_range <= 0.  Line 98 then raises
\* OverflowError: offset / max_range is too large for a float when value is
\* oversize, and an oversize sensitivity cannot be converted to the float
\* that the product needs.
scale_axis_call(value, center, deadzone, sensitivity, oversize) ==
    LET in_band == oversize # "value" /\ Abs(value - center) <= deadzone
        max_range == center - deadzone
    IN  IF in_band \/ max_range <= 0 THEN [ raised |-> FALSE, result |-> 0 ]
        ELSE IF oversize # "none" THEN [ raised |-> TRUE, result |-> 0 ]
        ELSE [ raised |-> FALSE,
               result |-> scale_axis(value, center, deadzone, sensitivity) ]

joy_active(jx, jy) ==
    Abs(jx - JOY_CENTER) > JOY_DEADZONE \/ Abs(jy - JOY_CENTER) > JOY_DEADZONE

(***************************************************************************)
(* HID commands.  Every command is a record of the same shape; phase is    *)
(* filled in by TickCmds: 1 = tap handling (lines 268-274), 2 = modifier   *)
(* modes (lines 276-320), 3 = release of held buttons (lines 322-329);     *)
(* t is the clock reading of the iteration that sent the command.          *)
(***************************************************************************)
Cmd(op, arg) ==
    [ op |-> op, arg |-> arg, dx |-> 0, dy |-> 0, wheel |-> 0, phase |-> 0,
      t |-> 0 ]
MoveCmd(dx, dy, wheel) ==
    [ op |-> "mouse_move", arg |-> "-", dx |-> dx, dy |-> dy, wheel |-> wheel,
      phase |-> 0, t |-> 0 ]
SentAt(s, t) == [ i \in 1..Len(s) |-> [ s[i] EXCEPT !.t = t ] ]
Stamp(s, p) == [ i \in 1..Len(s) |-> [ s[i] EXCEPT !.phase = p ] ]

\* the tap handling sending the key on every event of a release
TapCmds_OnRelease(c_ev, z_ev) ==
    (IF c_ev \in { "tap", "hold_end" } THEN << Cmd("key_send", "F") >> ELSE << >>)
    \o (IF z_ev \in { "tap", "hold_end" } THEN << Cmd("key_send", "D") >> ELSE << >>)

\* lines 268-274
TapCmds(c_ev, z_ev) ==
    (IF c_ev = "tap" THEN << Cmd("key_send", "F") >> ELSE << >>)
    \o (IF z_ev = "tap" THEN << Cmd("key_send", "D") >> ELSE << >>)

\* the if/elif/else of lines 278, 290, 302 with Z tested first
SelectMode_ZFirst(bc, bz) ==
    IF bz.is_pressed /\ bz.was_held THEN "orbit"
    ELSE IF bc.is_pressed /\ bc.was_held THEN "drag"
    ELSE "neutral"

\* the if/elif/else of lines 278, 290, 302
SelectMode(bc, bz) ==
    IF bc.is_pressed /\ bc.was_held THEN "drag"
    ELSE IF bz.is_pressed /\ bz.was_held THEN "orbit"
    ELSE "neutral"

\* a drag branch that presses the left button on every tick
DragCmds_NoLatch(jx, jy, lh) ==
    LET mx == scale_axis(jx, JOY_CENTER, JOY_DEADZONE, MOUSE_SENSITIVITY)
        my == -scale_axis(jy, JOY_CENTER, JOY_DEADZONE, MOUSE_SENSITIVITY)
    IN  << Cmd("mouse_press", "LEFT") >>
        \o (IF mx # 0 \/ my # 0 THEN << MoveCmd(mx, my, 0) >> ELSE << >>)

\* lines 279-288: C held
DragCmds(jx, jy, lh) ==
    LET mx == scale_axis(jx, JOY_CENTER, JOY_DEADZONE, MOUSE_SENSITIVITY)
        my == -scale_axis(jy, JOY_CENTER, JOY_DEADZONE, MOUSE_SENSITIVITY)
    IN  (IF ~lh THEN << Cmd("mouse_press", "LEFT") >> ELSE << >>)
        \o (IF mx # 0 \/ my # 0 THEN << MoveCmd(mx, my, 0) >> ELSE << >>)

\* Orbit sending its pointer move whatever the deltas are
OrbitCmds_AlwaysMove(jx, jy, rh) ==
    LET mx == scale_axis(jx, JOY_CENTER, JOY_DEADZONE, ORBIT_SENSITIVITY)
        my == -scale_axis(jy, JOY_CENTER, JOY_DEADZONE, ORBIT_SENSITIVITY)
    IN  (IF ~rh THEN << Cmd("mouse_press", "RIGHT") >> ELSE << >>)
        \o << MoveCmd(mx, my, 0) >>

\* lines 291-300: Z held
OrbitCmds(jx, jy, rh) ==
    LET mx == scale_axis(jx, JOY_CENTER, JOY_DEADZONE, ORBIT_SENSITIVITY)
        my == -scale_axis(jy, JOY_CENTER, JOY_DEADZONE, ORBIT_SENSITIVITY)
    IN  (IF ~rh THEN << Cmd("mouse_press", "RIGHT") >> ELSE << >>)
        \o (IF mx # 0 \/ my # 0 THEN << MoveCmd(mx, my, 0) >> ELSE << >>)

\* lines 312-320: the pan gesture
PanCmds(sx) ==
    << Cmd("key_press", "SHIFT"), Cmd("mouse_press", "RIGHT"),
       MoveCmd(sx, 0, 0),
       Cmd("mouse_release", "RIGHT"), Cmd("key_release", "SHIFT") >>

\* lines 303-320: no modifier
NeutralCmds(jx, jy) ==
    LET sy == jy - JOY_CENTER
        scroll == TruncDiv(sy, SCROLL_DIVIDER)
        sx == scale_axis(jx, JOY_CENTER, JOY_DEADZONE, MOUSE_SENSITIVITY)
    IN  IF joy_active(jx, jy)
        THEN (IF Abs(sy) > JOY_DEADZONE /\ scroll # 0
              THEN << MoveCmd(0, 0, scroll) >> ELSE << >>)
             \o (IF sx # 0 THEN PanCmds(sx) ELSE << >>)
        ELSE << >>

\* the commands of the branch taken (lines 278-320)
ModeCmds(m, jx, jy, lh, rh) ==
    IF m = "drag" THEN DragCmds(jx, jy, lh)
    ELSE IF m = "orbit" THEN OrbitCmds(jx, jy, rh)
    ELSE NeutralCmds(jx, jy)

\* a latch that a hold_end does not clear
Unlatch_Keep(ev, held) == held

\* lines 323-325 and 327-329: the latch after the release of held buttons
Unlatch(ev, held) == IF ev = "hold_end" /\ held THEN FALSE ELSE held

\* the unlatch clearing the latches without telling the device
UnlatchCmds_NoRelease(c_ev, z_ev, lh, rh) == << >>

\* lines 322-329; lh and rh are the latches after the branch has run
UnlatchCmds(c_ev, z_ev, lh, rh) ==
    (IF c_ev = "hold_end" /\ lh THEN << Cmd("mouse_release", "LEFT") >>
     ELSE << >>)
    \o (IF z_ev = "hold_end" /\ rh THEN << Cmd("mouse_release", "RIGHT") >>
        ELSE << >>)

\* the loop body with the release of held buttons ahead of the modes
TickCmds_UnlatchFirst(tap, modec, unl) ==
    Stamp(tap, 1) \o Stamp(unl, 3) \o Stamp(modec, 2)

\* one iteration's commands in program order (lines 268-329)
TickCmds(tap, modec, unl) ==
    Stamp(tap, 1) \o Stamp(modec, 2) \o Stamp(unl, 3)

(***************************************************************************)
(* Start-up: init_i2c and the head of main() (code.py lines 125-238)       *)
(***************************************************************************)
\* release_i2c_bus. first_high is the index of the first clock pulse after which
\* SDA reads high (RECOVERY_PULSES + 1: it never does); the result is the
\* sequence of line operations.
\* The for loop of lines 140-147 from pulse i on: SCL low, SCL high, read SDA
RECURSIVE ClockPulses(_, _)
ClockPulses(i, first_high) ==
    IF i > RECOVERY_PULSES THEN << >>
    ELSE << "scl_low", "scl_high" >>
         \o (IF i >= first_high THEN << >> ELSE ClockPulses(i + 1, first_high))

\* lines 150-157: SDA re-opened as an output and driven low, SCL high, SDA high
StopCondition == << "sda_deinit", "sda_low", "scl_high", "sda_high" >>

\* lines 160-161: both lines given back
ReleaseLines == << "scl_deinit", "sda_deinit" >>

\* release_i2c_bus whose loop never looks at SDA
release_i2c_bus_NoBreak(first_high) ==
    ClockPulses(1, RECOVERY_PULSES + 1) \o StopCondition \o ReleaseLines

release_i2c_bus(first_high) ==
    ClockPulses(1, first_high) \o StopCondition \o ReleaseLines

\* init_i2c with the bus recovery left out
FailNext_NoRecovery(stage, idx) ==
    IF stage = "hw_first" THEN "hw_retry"
    ELSE IF stage = "hw_retry" THEN "bitbang"
    ELSE IF idx < Len(BitbangFreqs) THEN "bitbang"
    ELSE "halt"

\* init_i2c falling out of the frequency loop into main()
FailNext_NoHalt(stage, idx) ==
    IF stage = "hw_first" THEN "recover"
    ELSE IF stage = "hw_retry" THEN "bitbang"
    ELSE IF idx < Len(BitbangFreqs) THEN "bitbang"
    ELSE "scan"

\* where init_i2c goes after a failed attempt: the except clauses of lines
\* 177-181, 187-193, 198-203 and the halt of lines 205-213
FailNext(stage, idx) ==
    IF stage = "hw_first" THEN "recover"
    ELSE IF stage = "hw_retry" THEN "bitbang"
    ELSE IF idx < Len(BitbangFreqs) THEN "bitbang"
    ELSE "halt"

Attempt(kind, freq, res) == [ kind |-> kind, freq |-> freq, res |-> res ]

\* check_pullups(): reads and prints the line levels; nothing depends on them
CheckPullups ==
    /\ pc = "check_pullups"
    /\ pc' = "hw_first"
    /\ UNCHANGED << boot_vars, loop_vars, sc >>

\* Strategy 1, busio.I2C succeeds
HardwareOk ==
    /\ pc = "hw_first"
    /\ attempts' = Append(attempts, Attempt("hw", 100000, "ok"))
    /\ i2c' = [ kind |-> "hw", freq |-> 100000 ]
    /\ pc' = "scan"
    /\ UNCHANGED << bb_idx, recovery, idle, nunchuk, loop_vars, sc >>

\* Strategy 1, busio.I2C raises RuntimeError
HardwareFail ==
    /\ pc = "hw_first"
    /\ attempts' = Append(attempts, Attempt("hw", 100000, "fail"))
    /\ pc' = FailNext("hw_first", 0)
    /\ UNCHANGED << i2c, bb_idx, recovery, idle, nunchuk, loop_vars, sc >>

\* Strategy 2, first half: release_i2c_bus()
ReleaseI2CBus ==
    /\ pc = "recover"
    /\ \E first_high \in 1..(RECOVERY_PULSES + 1) :
         recovery' = [ calls |-> recovery.calls + 1, first_high |-> first_high,
                       ops |-> release_i2c_bus(first_high) ]
    /\ attempts' = Append(attempts, Attempt("release", 0, "done"))
    /\ pc' = "hw_retry"
    /\ UNCHANGED << i2c, bb_idx, idle, nunchuk, loop_vars, sc >>

\* Strategy 2, second half: busio.I2C succeeds after the recovery
RetryOk ==
    /\ pc = "hw_retry"
    /\ attempts' = Append(attempts, Attempt("hw", 100000, "ok"))
    /\ i2c' = [ kind |-> "hw", freq |-> 100000 ]
    /\ pc' = "scan"
    /\ UNCHANGED << bb_idx, recovery, idle, nunchuk, loop_vars, sc >>

\* Strategy 2, second half: busio.I2C raises RuntimeError again
RetryFail ==
    /\ pc = "hw_retry"
    /\ attempts' = Append(attempts, Attempt("hw", 100000, "fail"))
    /\ pc' = FailNext("hw_retry", 0)
    /\ UNCHANGED << i2c, bb_idx, recovery, idle, nunchuk, loop_vars, sc >>

\* Strategy 3, bitbangio.I2C at the next frequency succeeds
BitbangOk ==
    /\ pc = "bitbang"
    /\ bb_idx <= Len(BitbangFreqs)
    /\ attempts' = Append(attempts, Attempt("bitbang", BitbangFreqs[bb_idx], "ok"))
    /\ i2c' = [ kind |-> "bitbang", freq |-> BitbangFreqs[bb_idx] ]
    /\ pc' = "scan"
    /\ UNCHANGED << bb_idx, recovery, idle, nunchuk, loop_vars, sc >>

\* Strategy 3, bitbangio.I2C raises TimeoutError, ValueError or RuntimeError;
\* the i2c.deinit() of the handler fails on the unbound name and is ignored
BitbangFail ==
    /\ pc = "bitbang"
    /\ bb_idx <= Len(BitbangFreqs)
    /\ attempts' = Append(attempts, Attempt("bitbang", BitbangFreqs[bb_idx], "fail"))
    /\ pc' = FailNext("bitbang", bb_idx)
    /\ bb_idx' = bb_idx + 1
    /\ UNCHANGED << i2c, recovery, idle, nunchuk, loop_vars, sc >>

\* the halt: while True: time.sleep(1)
Halt ==
    /\ pc = "halt"
    /\ idle < MaxIdle
    /\ idle' = idle + 1
    /\ UNCHANGED << pc, i2c, bb_idx, attempts, recovery, nunchuk, loop_vars, sc >>

\* main() lines 219-248: scan (a missing 0x52 is only reported), Nunchuk,
\* Keyboard and Mouse construction, the two trackers and the two latches
Scan ==
    /\ pc = "scan"
    /\ nunchuk' = "ready"
    /\ btn_c' = ButtonState
    /\ btn_z' = ButtonState
    /\ left_click_held' = FALSE
    /\ right_click_held' = FALSE
    /\ pc' = "run"
    /\ UNCHANGED << i2c, bb_idx, attempts, recovery, idle, now, joy, buttons,
                    c_event, z_event, mode, out, held_before, ep_c, ep_z,
                    device, sc >>

(***************************************************************************)
(* History of a press episode of one button, kept from the samples fed to  *)
(* update() and the events it returned (not from the tracker's fields).    *)
(***************************************************************************)
Inc(n) == IF n < 2 THEN n + 1 ELSE 2
Count(s, op, arg, phase) ==
    Cardinality({ i \in 1..Len(s) :
                    s[i].op = op /\ s[i].arg = arg /\ s[i].phase = phase })

NoEpisode ==
    [ active |-> FALSE, done |-> FALSE, t0 |-> 0, dur |-> 0,
      mv_press |-> FALSE, mv_mid |-> FALSE, mv_rel |-> FALSE,
      taps |-> 0, hs |-> 0, he |-> 0,
      crossed |-> FALSE, hs_first |-> FALSE, ev_rel |-> "none",
      presses |-> 0, releases |-> 0,
      held_before |-> FALSE, moved_before |-> FALSE ]

\* ep after a sample (pressed, t, moved) given to the tracker in state self,
\* for which update() returned event and the loop emitted np latch presses and
\* nr latch releases of the button
EpStep(ep, self, pressed, t, moved, event, np, nr) ==
    LET ntap == IF event = "tap" THEN 1 ELSE 0
        nhs == IF event = "hold_start" THEN 1 ELSE 0
        nhe == IF event = "hold_end" THEN 1 ELSE 0
    IN  IF pressed /\ ~ep.active THEN
            [ NoEpisode EXCEPT !.active = TRUE, !.t0 = t, !.mv_press = moved,
                               !.taps = ntap, !.hs = nhs, !.he = nhe,
                               !.presses = np, !.releases = nr,
                               !.held_before = self.was_held,
                               !.moved_before = self.moved_during_press ]
        ELSE IF pressed /\ ep.active THEN
            LET over == t - ep.t0 > TAP_MAX_DURATION
            IN  [ ep EXCEPT !.dur = t - ep.t0,
                            !.mv_mid = @ \/ moved,
                            !.taps = IF ntap = 1 THEN Inc(@) ELSE @,
                            !.hs = IF nhs = 1 THEN Inc(@) ELSE @,
                            !.he = IF nhe = 1 THEN Inc(@) ELSE @,
                            !.crossed = @ \/ over,
                            !.hs_first = IF over /\ ~ep.crossed
                                         THEN event = "hold_start" ELSE @,
                            !.presses = IF np > 0 THEN Inc(@) ELSE @,
                            !.releases = IF nr > 0 THEN Inc(@) ELSE @ ]
        ELSE IF ~pressed /\ ep.active THEN
            [ ep EXCEPT !.active = FALSE, !.done = TRUE,
                        !.dur = t - ep.t0, !.mv_rel = moved,
                        !.taps = IF ntap = 1 THEN Inc(@) ELSE @,
                        !.hs = IF nhs = 1 THEN Inc(@) ELSE @,
                        !.he = IF nhe = 1 THEN Inc(@) ELSE @,
                        !.ev_rel = event,
                        !.presses = IF np > 0 THEN Inc(@) ELSE @,
                        !.releases = IF nr > 0 THEN Inc(@) ELSE @ ]
        ELSE ep

(***************************************************************************)
(* The state of the HID device as the host sees it: the buttons and keys   *)
(* that a press command has put down and no release has let go.           *)
(***************************************************************************)
AllUp == [ LEFT |-> FALSE, RIGHT |-> FALSE, SHIFT |-> FALSE ]

\* mouse.press / mouse.release / keyboard.press / keyboard.release set and
\* clear one button or key; keyboard.send presses its key and releases all
\* keys; mouse.move changes nothing that is held
ApplyCmd(dev, c) ==
    IF c.op \in { "mouse_press", "key_press" } THEN [ dev EXCEPT ![c.arg] = TRUE ]
    ELSE IF c.op \in { "mouse_release", "key_release" }
         THEN [ dev EXCEPT ![c.arg] = FALSE ]
    ELSE IF c.op = "key_send" THEN [ dev EXCEPT !.SHIFT = FALSE ]
    ELSE dev

RECURSIVE ApplyCmds(_, _)
ApplyCmds(dev, s) ==
    IF s = << >> THEN dev ELSE ApplyCmds(ApplyCmd(dev, Head(s)), Tail(s))

(***************************************************************************)
(* The control loop (code.py lines 250-331): one iteration                 *)
(***************************************************************************)
TickUntil(limit) ==
    /\ pc = "run"
    /\ \E d \in TickDurations, js \in JoySamples,
          c \in BOOLEAN, z \in BOOLEAN :
         /\ d >= LOOP_DELAY
         /\ now + d <= limit
         /\ LET t == now + d
                jx == js[1]
                jy == js[2]
                joy_moved == joy_active(jx, jy)
                uc == update(btn_c, c, t, joy_moved)
                uz == update(btn_z, z, t, joy_moved)
                m == SelectMode(uc.st, uz.st)
                modec == ModeCmds(m, jx, jy, left_click_held, right_click_held)
                lh == left_click_held \/ m = "drag"
                rh == right_click_held \/ m = "orbit"
                unl == UnlatchCmds(uc.event, uz.event, lh, rh)
                cmds == TickCmds(TapCmds(uc.event, uz.event), modec, unl)
            IN  /\ now' = t
                /\ joy' = << jx, jy >>
                /\ buttons' = [ C |-> c, Z |-> z ]
                /\ btn_c' = uc.st
                /\ btn_z' = uz.st
                /\ c_event' = uc.event
                /\ z_event' = uz.event
                /\ mode' = m
                /\ out' = SentAt(cmds, t)
                /\ held_before' = [ left |-> left_click_held,
                                    right |-> right_click_held ]
                /\ left_click_held' = Unlatch(uc.event, lh)
                /\ right_click_held' = Unlatch(uz.event, rh)
                /\ ep_c' = EpStep(ep_c, btn_c, c, t, joy_moved, uc.event,
                                  Count(cmds, "mouse_press", "LEFT", 2),
                                  Count(cmds, "mouse_release", "LEFT", 3))
                /\ ep_z' = EpStep(ep_z, btn_z, z, t, joy_moved, uz.event,
                                  IF m = "orbit"
                                  THEN Count(cmds, "mouse_press", "RIGHT", 2)
                                  ELSE 0,
                                  Count(cmds, "mouse_release", "RIGHT", 3))
                /\ device' = ApplyCmds(device, cmds)
    /\ UNCHANGED << pc, boot_vars, sc >>

\* a call scale_axis(value, center, deadzone, sensitivity) returning or raising
ScaleAxis ==
    /\ pc = "scale_axis"
    /\ ~ sc.done
    /\ LET r == scale_axis_call(sc.value, sc.center, sc.deadzone, sc.sensitivity,
                                sc.oversize)
       IN  sc' = [ sc EXCEPT !.result = r.result, !.raised = r.raised,
                             !.done = TRUE ]
    /\ UNCHANGED << pc, boot_vars, loop_vars >>

NoCall == [ value |-> 0, center |-> 0, deadzone |-> 0, sensitivity |-> 0,
            oversize |-> "none", result |-> 0, raised |-> FALSE, done |-> FALSE ]

Tick == TickUntil(MaxTime)
FirstTicks == TickUntil(BootMaxTime)

(***************************************************************************)
(* Specifications                                                          *)
(***************************************************************************)
\* the state before init_i2c() and main() have done anything
Unstarted ==
    /\ i2c = [ kind |-> "none", freq |-> 0 ]
    /\ bb_idx = 1
    /\ attempts = << >>
    /\ recovery = [ calls |-> 0, first_high |-> 0, ops |-> << >> ]
    /\ idle = 0
    /\ nunchuk = "none"
    /\ now = 0
    /\ btn_c = ButtonState
    /\ btn_z = ButtonState
    /\ left_click_held = FALSE
    /\ right_click_held = FALSE
    /\ joy = << JOY_CENTER, JOY_CENTER >>
    /\ buttons = [ C |-> FALSE, Z |-> FALSE ]
    /\ c_event = "none"
    /\ z_event = "none"
    /\ mode = "boot"
    /\ out = << >>
    /\ held_before = [ left |-> FALSE, right |-> FALSE ]
    /\ ep_c = NoEpisode
    /\ ep_z = NoEpisode
    /\ device = AllUp

Init ==
    /\ pc = "check_pullups"
    /\ sc = NoCall
    /\ Unstarted

\* the program on a healthy bus: start-up succeeds at once, then the loop
Next ==
    \/ CheckPullups
    \/ HardwareOk
    \/ Scan
    \/ Tick

Spec == Init /\ [][Next]_vars

\* the start-up with every bus fault, followed by the first loop iterations
NextBoot ==
    \/ CheckPullups
    \/ HardwareOk
    \/ HardwareFail
    \/ ReleaseI2CBus
    \/ RetryOk
    \/ RetryFail
    \/ BitbangOk
    \/ BitbangFail
    \/ Halt
    \/ Scan
    \/ FirstTicks

SpecBoot == Init /\ [][NextBoot]_vars

\* scale_axis on its own: one call with arguments drawn from the bounded sets
InitScale ==
    /\ pc = "scale_axis"
    /\ sc \in [ value : ScaleValues, center : ScaleCenters,
                 deadzone : ScaleDeadzones, sensitivity : ScaleSensitivities,
                 oversize : ScaleOversize,
                 result : { 0 }, raised : { FALSE }, done : { FALSE } ]
    /\ Unstarted

NextScale == ScaleAxis

SpecScale == InitScale /\ [][NextScale]_vars

(***************************************************************************)
(* Properties                                                              *)
(***************************************************************************)
Episodes == { ep_c, ep_z }
HoldActive(b) == b.is_pressed /\ b.was_held
\* the sample just fed was the press transition of the episode
Fresh(ep) == ep.active /\ ep.dur = 0
NoEvents(ep) == ep.taps = 0 /\ ep.hs = 0 /\ ep.he = 0
CountAny(s, op, arg) ==
    Cardinality({ i \in 1..Len(s) : s[i].op = op /\ s[i].arg = arg })
Looped == pc = "run" /\ mode # "boot"

\* C1: a finished press episode that lasted at most TAP_MAX_DURATION and in
\* which no sample (press, held or release) reported stick movement returned
\* "tap" exactly once, on its release sample, and never "hold_start" or
\* "hold_end".
C1_QuietShortPressIsOneTap ==
    \A ep \in Episodes :
        ( ep.done /\ ep.dur <= TAP_MAX_DURATION
          /\ ~ep.mv_press /\ ~ep.mv_mid /\ ~ep.mv_rel )
        => ( ep.taps = 1 /\ ep.ev_rel = "tap" /\ ep.hs = 0 /\ ep.he = 0 )

\* C1 witness: button C was released 250 ms after its press, stick at rest
\* throughout, and this tick's event is the tap.
C1_Witness ==
    /\ ep_c.done /\ ep_c.dur = 2 * ClockStep
    /\ ~ep_c.mv_press /\ ~ep_c.mv_mid /\ ~ep_c.mv_rel
    /\ c_event = "tap"

\* C2 as stated: every finished episode whose release sample is more than
\* TAP_MAX_DURATION after its press sample returned "hold_start" exactly once
\* and "hold_end" exactly once.
C2_Original ==
    \A ep \in Episodes :
        ( ep.done /\ ep.dur > TAP_MAX_DURATION ) => ( ep.hs = 1 /\ ep.he = 1 )

\* C2 amended: in every press episode in which some sample with the button
\* still pressed lies more than TAP_MAX_DURATION after the press sample,
\* "hold_start" is returned exactly once, on the first such sample, and
\* "hold_end" exactly once, on the release sample, whatever the stick did; an
\* episode in which only the release sample lies beyond the threshold returns
\* no event at all.
C2_HeldPastThresholdIsOneHold ==
    \A ep \in Episodes :
        /\ ep.crossed =>
             /\ ep.hs = 1 /\ ep.hs_first /\ ep.taps = 0
             /\ ep.active => ep.he = 0
             /\ ep.done => ( ep.he = 1 /\ ep.ev_rel = "hold_end" )
        /\ ( ep.done /\ ~ep.crossed /\ ep.dur > TAP_MAX_DURATION )
             => NoEvents(ep)

\* C2 witness: button C was held past the threshold while the stick moved and
\* has now been released with "hold_end".
C2_Witness ==
    /\ ep_c.done /\ ep_c.crossed /\ ep_c.mv_mid
    /\ ep_c.hs = 1 /\ c_event = "hold_end"

\* C3 as stated: a finished episode shorter than the threshold in which the
\* stick was outside the dead zone at any pressed sample, the press sample
\* included, returned no event.
C3_Original ==
    \A ep \in Episodes :
        ( ep.done /\ ep.dur < TAP_MAX_DURATION /\ (ep.mv_press \/ ep.mv_mid) )
        => NoEvents(ep)

\* C3 amended: a finished episode shorter than the threshold in which the
\* stick was outside the dead zone at some pressed sample after the one on
\* which the press was first seen returned no event at any sample; movement
\* seen only on the press sample itself is not recorded.
C3_MovedShortPressIsSilent ==
    \A ep \in Episodes :
        ( ep.done /\ ep.dur < TAP_MAX_DURATION /\ ep.mv_mid ) => NoEvents(ep)

\* C3 witness: button Z was released within the threshold after a held
\* sample, and only that held sample saw the stick move.
C3_Witness ==
    /\ ep_z.done /\ ep_z.dur < TAP_MAX_DURATION
    /\ ep_z.mv_mid /\ ~ep_z.mv_press /\ ~ep_z.mv_rel
    /\ z_event = "none"

\* C4: right after an update that took a tracker from not pressed to pressed,
\* its was_held and moved_during_press are both FALSE.
C4_PressResetsFlags ==
    /\ Fresh(ep_c) => ( ~btn_c.was_held /\ ~btn_c.moved_during_press )
    /\ Fresh(ep_z) => ( ~btn_z.was_held /\ ~btn_z.moved_during_press )

\* C4 witness: button C has just been pressed, with the stick moving, on a
\* tracker that still had was_held and moved_during_press set from the
\* previous hold.
C4_Witness ==
    /\ Fresh(ep_c) /\ ep_c.mv_press
    /\ ep_c.held_before /\ ep_c.moved_before
    /\ btn_c.is_pressed

\* what each branch may send in phase 2, read off the commands themselves
IsDragCmd(c) ==
    \/ c.op = "mouse_press" /\ c.arg = "LEFT"
    \/ /\ c.op = "mouse_move" /\ c.wheel = 0
       /\ c.dx = scale_axis(joy[1], JOY_CENTER, JOY_DEADZONE, MOUSE_SENSITIVITY)
       /\ c.dy = -scale_axis(joy[2], JOY_CENTER, JOY_DEADZONE, MOUSE_SENSITIVITY)
IsOrbitCmd(c) ==
    \/ c.op = "mouse_press" /\ c.arg = "RIGHT"
    \/ /\ c.op = "mouse_move" /\ c.wheel = 0
       /\ c.dx = scale_axis(joy[1], JOY_CENTER, JOY_DEADZONE, ORBIT_SENSITIVITY)
       /\ c.dy = -scale_axis(joy[2], JOY_CENTER, JOY_DEADZONE, ORBIT_SENSITIVITY)
ModePart == SelectSeq(out, LAMBDA c : c.phase = 2)
HasPan == \E i \in 1..Len(out) : out[i].op = "key_press" /\ out[i].arg = "SHIFT"
HasScroll == \E i \in 1..Len(out) : out[i].op = "mouse_move" /\ out[i].wheel # 0

\* C5: every tick takes exactly one of the three branches, and Drag wins: on
\* a tick where C's hold is active the branch is Drag, the left button is
\* latched, the mode commands are a left press and/or a move scaled with
\* MOUSE_SENSITIVITY, and there is no right press, no Orbit-scaled move, no
\* scroll and no pan gesture, also when Z's hold is active as well.  Orbit
\* runs only when C's hold is not active and Z's is; Neutral only when
\* neither is.
C5_DragHasPriority ==
    Looped =>
        /\ mode \in { "drag", "orbit", "neutral" }
        /\ mode = "drag" <=> HoldActive(btn_c)
        /\ mode = "orbit" <=> ( ~HoldActive(btn_c) /\ HoldActive(btn_z) )
        /\ HoldActive(btn_c) =>
             /\ left_click_held
             /\ \A i \in 1..Len(ModePart) : IsDragCmd(ModePart[i])
             /\ ~HasPan /\ ~HasScroll
             /\ CountAny(out, "mouse_press", "RIGHT") = 0
        /\ mode = "orbit" => \A i \in 1..Len(ModePart) : IsOrbitCmd(ModePart[i])
        /\ mode # "neutral" => ( ~HasPan /\ ~HasScroll )

\* C5 witness: both holds are active with the stick fully deflected, Z's hold
\* having latched the right button earlier; the tick ran Drag and moved.
C5_Witness ==
    /\ Looped /\ HoldActive(btn_c) /\ HoldActive(btn_z)
    /\ joy = << 255, JOY_CENTER >>
    /\ mode = "drag" /\ Len(ModePart) > 0

\* C6: the left button is pressed exactly on the ticks where C's event is
\* "hold_start" and released exactly on the ticks where it is "hold_end", once
\* each; so an episode of C with a hold_start has one left press and, once
\* released, one left release, and an episode without hold_start has neither.
C6_OneLeftPressAndReleasePerHold ==
    Looped =>
        /\ CountAny(out, "mouse_press", "LEFT")
             = (IF c_event = "hold_start" THEN 1 ELSE 0)
        /\ CountAny(out, "mouse_release", "LEFT")
             = (IF c_event = "hold_end" THEN 1 ELSE 0)
        /\ ep_c.hs = 0 => ( ep_c.presses = 0 /\ ep_c.releases = 0 )
        /\ ep_c.hs > 0 =>
             /\ ep_c.presses = 1
             /\ ep_c.active => ep_c.releases = 0
             /\ ep_c.done => ( ep_c.releases = 1 /\ ep_c.ev_rel = "hold_end" )

\* C6 witness: C's hold ends on this tick, with one left press and one left
\* release in the episode, while Z's hold is active.
C6_Witness ==
    /\ c_event = "hold_end" /\ ep_c.presses = 1 /\ ep_c.releases = 1
    /\ HoldActive(btn_z)
    /\ CountAny(out, "mouse_release", "LEFT") = 1

\* C7: the pan gesture is never sent on a tick on which right_click_held was
\* TRUE when the branch ran.
C7_NoPanWhileRightLatched ==
    Looped => ~( HasPan /\ held_before.right )

\* C8, within a tick: tap key sends (F, then D) precede every command of the
\* selected mode, and those precede the releases of held buttons (left, then
\* right).
C8_TickOrder ==
    /\ \A i, j \in 1..Len(out) : i < j => out[i].phase <= out[j].phase
    /\ \A i \in 1..Len(out) :
         /\ out[i].phase \in 1..3
         /\ out[i].phase = 1 <=> out[i].op = "key_send"
         /\ out[i].phase = 3 => out[i].op = "mouse_release"
    /\ \A i, j \in 1..Len(out) :
         ( i < j /\ out[i].phase = out[j].phase /\ out[i].phase # 2 )
         => ( out[i].arg \in { "F", "LEFT" } /\ out[j].arg \in { "D", "RIGHT" } )

\* C8: the order within a tick, and across ticks: every command carries the
\* clock reading of the iteration that sent it, and the commands of a later
\* iteration carry a later reading than every command sent before.
C8_CommandOrder ==
    /\ [] C8_TickOrder
    /\ [][ now' # now =>
             /\ now' > now
             /\ \A i \in 1..Len(out) : out[i].t <= now
             /\ \A j \in 1..Len(out') : out'[j].t = now' ]_vars

\* C8 witness: one tick sent a tap key, mode commands and a release of a held
\* button.
C8_Witness ==
    /\ \E i \in 1..Len(out) : out[i].phase = 1
    /\ \E i \in 1..Len(out) : out[i].phase = 2
    /\ \E i \in 1..Len(out) : out[i].phase = 3

\* the order in which init_i2c tries its strategies
StrategyOrder ==
    << Attempt("hw", 100000, "-"), Attempt("release", 0, "-"),
       Attempt("hw", 100000, "-"), Attempt("bitbang", 100000, "-"),
       Attempt("bitbang", 50000, "-"), Attempt("bitbang", 10000, "-") >>

\* C9: the strategies tried are a prefix of hardware, bus recovery, hardware,
\* bit-bang at 100000, 50000, 10000 Hz; nothing is tried after a success, and
\* the handle returned is the one of the last attempt; release_i2c_bus has run
\* once when the first hardware attempt failed and never when it succeeded.
C9_StrategyOrder ==
    /\ Len(attempts) <= Len(StrategyOrder)
    /\ \A i \in 1..Len(attempts) :
         /\ attempts[i].kind = StrategyOrder[i].kind
         /\ attempts[i].freq = StrategyOrder[i].freq
         /\ i < Len(attempts) => attempts[i].res # "ok"
    /\ pc \in { "scan", "run" } =>
         /\ Len(attempts) > 0
         /\ attempts[Len(attempts)].res = "ok"
         /\ i2c.kind = attempts[Len(attempts)].kind
         /\ i2c.freq = attempts[Len(attempts)].freq
    /\ pc \notin { "scan", "run" } => i2c.kind = "none"
    /\ ( Len(attempts) > 0 /\ attempts[1].res = "ok" ) => recovery.calls = 0
    /\ ( Len(attempts) > 0 /\ attempts[1].res = "fail" /\ pc # "recover" )
         => recovery.calls = 1

\* C9 witness: the loop runs on the software bus at 10000 Hz, reached after
\* five failures and one bus recovery.
C9_Witness ==
    /\ pc = "run" /\ i2c = [ kind |-> "bitbang", freq |-> 10000 ]
    /\ Len(attempts) = 6 /\ recovery.calls = 1 /\ mode # "boot"

AllAttemptsFailed ==
    Cardinality({ i \in 1..Len(attempts) :
                    attempts[i].kind # "release" /\ attempts[i].res = "fail" })
        = 2 + Len(BitbangFreqs)

\* C10: once both hardware attempts and the three software attempts have
\* failed, main() is in the halt loop in every later state: no bus handle, no
\* sensor object, no loop iteration and no HID command.
C10_AllFailedHalts ==
    AllAttemptsFailed =>
        /\ pc = "halt"
        /\ i2c.kind = "none"
        /\ nunchuk = "none"
        /\ mode = "boot"
        /\ out = << >>

\* C10 witness: every attempt failed and the halt loop has slept twice.
C10_Witness ==
    /\ AllAttemptsFailed /\ pc = "halt" /\ idle >= 2

(***************************************************************************)
(* C11: release_i2c_bus sends k clock pulses, k the index of the first     *)
(* pulse after which SDA read high, or 9 when it never did: the operations *)
(* begin with exactly k low/high pairs on SCL and nothing else drives SCL   *)
(* low; whatever k was, the stop sequence (SDA low, SCL high, SDA high)     *)
(* and the release of both lines follow, and the function has returned.     *)
(***************************************************************************)
PulseCount(ops) == Cardinality({ i \in 1..Len(ops) : ops[i] = "scl_low" })

C11_RecoveryPulsesThenStop ==
    recovery.calls > 0 =>
        LET ops == recovery.ops
            k == IF recovery.first_high <= 9 THEN recovery.first_high ELSE 9
        IN  /\ PulseCount(ops) = k
            /\ Len(ops) = 2 * k + 6
            /\ \A i \in 1..k : ops[2 * i - 1] = "scl_low" /\ ops[2 * i] = "scl_high"
            /\ SubSeq(ops, 2 * k + 1, 2 * k + 4)
                   = << "sda_deinit", "sda_low", "scl_high", "sda_high" >>
            /\ SubSeq(ops, 2 * k + 5, 2 * k + 6) = << "scl_deinit", "sda_deinit" >>
            /\ pc # "recover"

\* the data line read high after the third pulse
C11_Witness ==
    /\ recovery.calls = 1
    /\ recovery.first_high = 3
    /\ PulseCount(recovery.ops) = 3
    /\ Len(recovery.ops) = 12

(***************************************************************************)
(* Calls of scale_axis on its own (SpecScale)                              *)
(***************************************************************************)
ScOffset == sc.value - sc.center
\* where the value lies, an oversize value being above every band
ScInBand == sc.oversize # "value" /\ Abs(ScOffset) <= sc.deadzone
ScAbove == sc.oversize = "value" \/ sc.value > sc.center + sc.deadzone
ScBelow == sc.oversize # "value" /\ sc.value < sc.center - sc.deadzone
ScRange == sc.center - sc.deadzone
\* what is left of the offset once the dead zone is taken off, times sensitivity
ScProduct == (Abs(ScOffset) - sc.deadzone) * sc.sensitivity
\* a call whose four arguments are integers of magnitude at most 30000
ScBounded ==
    /\ sc.oversize = "none"
    /\ \A x \in { sc.value, sc.center, sc.deadzone, sc.sensitivity } :
           Abs(x) <= 30000

(***************************************************************************)
(* C12 as stated: for all integers with deadzone >= 0 and sensitivity > 0, *)
(* a value inside [center - deadzone, center + deadzone] gives exactly 0    *)
(* and a value outside it gives a result of the sign of value - center.     *)
(***************************************************************************)
C12_Original ==
    ( /\ sc.done
      /\ sc.deadzone >= 0
      /\ (sc.oversize = "sensitivity" \/ sc.sensitivity > 0) ) =>
        /\ ~ sc.raised
        /\ ScInBand => sc.result = 0
        /\ ScAbove => sc.result > 0
        /\ ScBelow => sc.result < 0

(***************************************************************************)
(* C12, amended: for all integers of magnitude at most 30000 with          *)
(* deadzone >= 0 and sensitivity > 0, the call returns; a value inside the *)
(* band gives exactly 0; a value outside it never gives a result of the    *)
(* opposite sign; the result has the sign of value - center when            *)
(* (|value - center| - deadzone) * sensitivity > center - deadzone > 0, and *)
(* it is 0 when that product is below center - deadzone or when             *)
(* center - deadzone <= 0.                                                  *)
(***************************************************************************)
C12_SignOrZero ==
    (sc.done /\ ScBounded /\ sc.deadzone >= 0 /\ sc.sensitivity > 0) =>
        /\ ~ sc.raised
        /\ ScInBand => sc.result = 0
        /\ ScAbove => sc.result >= 0
        /\ ScBelow => sc.result <= 0
        /\ (~ ScInBand /\ ScRange > 0 /\ ScProduct > ScRange) =>
               /\ sc.result # 0
               /\ (sc.result > 0) = (ScOffset > 0)
        /\ (~ ScInBand /\ (ScRange <= 0 \/ ScProduct < ScRange)) => sc.result = 0

\* the stick fully to the left at the program's settings
C12_Witness ==
    /\ sc.done /\ sc.oversize = "none"
    /\ sc.value = 0 /\ sc.center = 128 /\ sc.deadzone = 25 /\ sc.sensitivity = 15
    /\ sc.result = -15

(***************************************************************************)
(* C13: for all integers with deadzone >= 0 and sensitivity >= 0 the       *)
(* result lies in [-sensitivity, sensitivity], it is 0 whenever             *)
(* center - deadzone <= 0, and no input raises an error.                    *)
(***************************************************************************)
C13_InRangeAndNoError ==
    ( /\ sc.done
      /\ sc.deadzone >= 0
      /\ (sc.oversize = "sensitivity" \/ sc.sensitivity >= 0) ) =>
        /\ ~ sc.raised
        /\ sc.oversize # "sensitivity" =>
               (-sc.sensitivity <= sc.result /\ sc.result <= sc.sensitivity)
        /\ ScRange <= 0 => sc.result = 0

(***************************************************************************)
(* C14: a tick sends key F exactly once when C's event of that tick is     *)
(* 'tap' and not at all otherwise, and key D likewise for Z; a tick of an  *)
(* episode that has produced 'hold_start' sends neither that button's key   *)
(* nor has the episode a tap.                                               *)
(***************************************************************************)
C14_KeyPerTap ==
    Looped =>
        /\ CountAny(out, "key_send", "F") = (IF c_event = "tap" THEN 1 ELSE 0)
        /\ CountAny(out, "key_send", "D") = (IF z_event = "tap" THEN 1 ELSE 0)
        /\ ep_c.hs > 0 => (CountAny(out, "key_send", "F") = 0 /\ ep_c.taps = 0)
        /\ ep_z.hs > 0 => (CountAny(out, "key_send", "D") = 0 /\ ep_z.taps = 0)

\* C tapped on a tick on which Z's hold ended
C14_Witness ==
    /\ Looped
    /\ c_event = "tap"
    /\ z_event = "hold_end"
    /\ ep_z.hs = 1
    /\ CountAny(out, "key_send", "F") = 1
    /\ CountAny(out, "key_send", "D") = 0

(***************************************************************************)
(* C15: was_held of a ButtonState is True only if the current press        *)
(* episode (the most recent one when the button is released) had a sample  *)
(* with the button pressed more than TAP_MAX_DURATION after the press       *)
(* transition; it is False before the first sample and on every state of    *)
(* an episode that has had no such sample.                                  *)
(***************************************************************************)
C15_WasHeldOnlyAfterThreshold ==
    /\ btn_c.was_held => (Looped /\ ep_c.crossed)
    /\ btn_z.was_held => (Looped /\ ep_z.crossed)
    /\ (ep_c.active /\ ~ ep_c.crossed) => ~ btn_c.was_held
    /\ (ep_z.active /\ ~ ep_z.crossed) => ~ btn_z.was_held

\* C released after a hold, was_held left True by the release; Z pressed
\* again after a hold and not yet past the threshold
C15_Witness ==
    /\ ~ btn_c.is_pressed /\ btn_c.was_held /\ ep_c.done /\ ep_c.crossed
    /\ btn_z.is_pressed /\ ~ btn_z.was_held /\ ep_z.held_before

(***************************************************************************)
(* The reference of C16: 0 inside the dead zone, otherwise the offset      *)
(* shrunk toward zero by deadzone, times sensitivity, divided by            *)
(* center - deadzone, truncated toward zero, clamped to [-127, 127].        *)
(***************************************************************************)
ReferenceScale(value, center, deadzone, sensitivity) ==
    LET offset == value - center
        shrunk == Abs(offset) - deadzone
        q == (shrunk * Abs(sensitivity)) \div (center - deadzone)
        clamped == IF q > 127 THEN 127 ELSE q
    IN  IF Abs(offset) <= deadzone THEN 0
        ELSE IF (offset > 0) = (sensitivity >= 0) THEN clamped ELSE -clamped

\* a call with the program's centre and dead zone on a raw value 0..255
ScProgramCall ==
    /\ sc.done
    /\ sc.oversize = "none"
    /\ sc.value \in 0..255
    /\ sc.center = 128
    /\ sc.deadzone = 25

ScReference == ReferenceScale(sc.value, sc.center, sc.deadzone, sc.sensitivity)
\* the result for the value mirrored about the centre
ScMirrored ==
    scale_axis(2 * sc.center - sc.value, sc.center, sc.deadzone, sc.sensitivity)
ScExamples ==
    /\ (sc.value = 153 /\ sc.sensitivity = 15) => sc.result = 0
    /\ (sc.value = 178 /\ sc.sensitivity = 15) => sc.result = 3

(***************************************************************************)
(* C16 as stated: for every value 0..255 with center 128, deadzone 25 and  *)
(* every sensitivity of the bounded set, scale_axis equals the reference;   *)
(* scale_axis(153,128,25,15) = 0, scale_axis(178,128,25,15) = 3, and        *)
(* scale_axis(center + d) = -scale_axis(center - d).                        *)
(***************************************************************************)
C16_Original ==
    ScProgramCall =>
        /\ sc.result = ScReference
        /\ ScExamples
        /\ sc.result = -ScMirrored

(***************************************************************************)
(* C16, amended: the same, for the sensitivities that are no multiple of   *)
(* center - deadzone = 103; for a sensitivity that is a positive multiple   *)
(* of 103 the result is the reference or one less than it in magnitude.     *)
(* The two examples and the odd symmetry hold for every sensitivity.        *)
(***************************************************************************)
C16_EqualsReference ==
    ScProgramCall =>
        /\ sc.sensitivity % 103 # 0 => sc.result = ScReference
        /\ sc.sensitivity % 103 = 0 =>
               \/ sc.result = ScReference
               \/ (ScReference > 0 /\ sc.result = ScReference - 1)
               \/ (ScReference < 0 /\ sc.result = ScReference + 1)
        /\ ScExamples
        /\ sc.result = -ScMirrored

\* the second example of the spec
C16_Witness ==
    /\ sc.done /\ sc.oversize = "none"
    /\ sc.value = 178 /\ sc.center = 128 /\ sc.deadzone = 25 /\ sc.sensitivity = 15
    /\ sc.result = 3
    /\ ScMirrored = -3

(***************************************************************************)
(* C17: with the device's state taken from the press and release commands  *)
(* it received, at the end of every tick its left button is down exactly    *)
(* when left_click_held is True, its right button is down exactly when      *)
(* right_click_held is True, and SHIFT is up.                               *)
(***************************************************************************)
C17_DeviceMatchesLatches ==
    pc = "run" =>
        /\ device.LEFT = left_click_held
        /\ device.RIGHT = right_click_held
        /\ ~ device.SHIFT

\* the tick on which Z's hold ends with the stick to the side: the pan gesture
\* presses and releases the right button that Orbit had latched
C17_Witness ==
    /\ Looped
    /\ z_event = "hold_end"
    /\ held_before.right
    /\ HasPan
    /\ ~ device.RIGHT /\ ~ right_click_held

(***************************************************************************)
(* C18: at the end of every tick left_click_held is True exactly when C's  *)
(* hold is active (is_pressed and was_held), and right_click_held is True   *)
(* only when Z's hold is active.                                            *)
(***************************************************************************)
C18_LatchFollowsHold ==
    pc = "run" =>
        /\ left_click_held = HoldActive(btn_c)
        /\ right_click_held => HoldActive(btn_z)

\* both holds active, Drag has kept Orbit from ever latching the right button
C18_Witness ==
    /\ Looped
    /\ HoldActive(btn_c) /\ left_click_held
    /\ HoldActive(btn_z) /\ ~ right_click_held

(***************************************************************************)
(* C19: at no tick boundary are left_click_held and right_click_held both  *)
(* True.                                                                    *)
(***************************************************************************)
C19_LatchesExclusive == ~ (left_click_held /\ right_click_held)

(***************************************************************************)
(* C20: a tick with the stick inside the dead zone on both axes, no event  *)
(* from either button and no latch to set sends no command at all; and no   *)
(* tick, in any mode, sends a pointer move whose dx, dy and scroll are all  *)
(* 0.                                                                       *)
(***************************************************************************)
LatchToSet ==
    \/ mode = "drag" /\ ~ held_before.left
    \/ mode = "orbit" /\ ~ held_before.right

C20_NothingSentWhenIdle ==
    Looped =>
        /\ ( /\ ~ joy_active(joy[1], joy[2])
             /\ c_event = "none" /\ z_event = "none"
             /\ ~ LatchToSet ) => out = << >>
        /\ \A i \in 1..Len(out) :
               out[i].op = "mouse_move" =>
                   ~ (out[i].dx = 0 /\ out[i].dy = 0 /\ out[i].wheel = 0)

\* a tick of Orbit, the right button latched before it, the stick at rest
C20_Witness ==
    /\ Looped
    /\ mode = "orbit"
    /\ held_before.right
    /\ joy = << 128, 128 >>
    /\ c_event = "none" /\ z_event = "none"
    /\ out = << >>

====
